---- MODULE Spec2Model ----
(***************************************************************************)
(* Model of transformer/train.py: the windowing (videoInputHelper), the    *)
(* padding (padInputHelper, padRating), the batch generator                *)
(* (generateTrainBatch, chunks) and the training loop of main.             *)
(*                                                                         *)
(* Python lists are sequences; Python's 0-based positions are kept where   *)
(* the code stores them (sample indices, count_v) and shifted by one where *)
(* a sequence is read.  Floating-point times and CCC values are modelled   *)
(* by integers (a time in units of one tick, a CCC in units of 1/CccScale).*)
(***************************************************************************)
EXTENDS Integers, Sequences, FiniteSets

VARIABLES
    pc,              \* position of the modelled function
    \* generateTrainBatch, and data_num of train
    input_data, input_target, input_length, batch_size,
    index, shuffle_chunks, chunk_no, batches, data_num,
    \* main
    epochs, eval_freq, epoch, model, best_ccc, single_best_ccc,
    checkpoint, evaluations, returned,
    \* padInputHelper
    pad_input_data, pad_old_version, pad_output, pad_seq_lens,
    \* videoInputHelper
    vectors_raw, ts, window_size, old_version,
    count_v, current_time, window_vs, video_vs

videoVars == <<vectors_raw, ts, window_size, old_version,
               count_v, current_time, window_vs, video_vs>>

padVars == <<pad_input_data, pad_old_version, pad_output, pad_seq_lens>>

batchVars == <<input_data, input_target, input_length, batch_size,
               index, shuffle_chunks, chunk_no, batches, data_num>>

mainVars == <<epochs, eval_freq, epoch, model, best_ccc, single_best_ccc,
              checkpoint, evaluations, returned>>

vars == <<pc, videoVars, padVars, batchVars, mainVars>>

----------------------------------------------------------------------------
(* Bounds of the model.                                                    *)
MaxVectors == 3      \* vectors of one channel of one video
MaxTime == 4         \* largest timestamp
MaxWindowSize == 2   \* largest window_size
MaxVideos == 2       \* videos given to padInputHelper
MaxWindows == 3      \* windows of all the videos together
MaxInWindow == 2     \* vectors of one window
MaxSamples == 3      \* samples given to generateTrainBatch
MaxLength == 3       \* windows of one sample
MaxBatchSize == 3    \* largest batch_size
MaxEpochs == 3       \* largest args.epochs
MaxEvalFreq == 2     \* largest args.eval_freq
CccScale == 2        \* a CCC c in [-1, 1] is the integer c * CccScale
Dim == 2             \* features of one vector (dim; 20 for emotient in main)

(* np.isnan(v): the one value of a feature that is not a number.           *)
NaN == -1

----------------------------------------------------------------------------
(* Helpers for Python list operations.                                     *)

Min(a, b) == IF a < b THEN a ELSE b

Max(a, b) == IF a > b THEN a ELSE b

\* l[a:b] for 0 <= a, 0 <= b (Python clips both ends to len(l)).
Slice(l, a, b) == SubSeq(l, Min(a, Len(l)) + 1, Min(b, Len(l)))

\* The largest number of a non-empty finite set of numbers.
Largest(S) == CHOOSE m \in S : \A x \in S : x <= m

RECURSIVE Concat(_)
Concat(ss) == IF ss = <<>> THEN <<>> ELSE Head(ss) \o Concat(Tail(ss))

RECURSIVE Sum(_)
Sum(s) == IF s = <<>> THEN 0 ELSE Head(s) + Sum(Tail(s))

RECURSIVE MaxOf(_)
\* max(s) of a non-empty list of numbers
MaxOf(s) == IF Len(s) = 1 THEN s[1] ELSE Max(s[1], MaxOf(Tail(s)))

----------------------------------------------------------------------------
(* The variables of a function that is not running keep these values.      *)

PadIdle ==
    /\ pad_input_data = <<>>
    /\ pad_old_version = FALSE
    /\ pad_output = <<>>
    /\ pad_seq_lens = <<>>

BatchIdle ==
    /\ input_data = <<>>
    /\ input_target = <<>>
    /\ input_length = <<>>
    /\ batch_size = 1
    /\ index = <<>>
    /\ shuffle_chunks = <<>>
    /\ chunk_no = 0
    /\ batches = <<>>
    /\ data_num = 0

MainIdle ==
    /\ epochs = 0
    /\ eval_freq = 1
    /\ epoch = 0
    /\ model = 0
    /\ best_ccc = 0
    /\ single_best_ccc = 0
    /\ checkpoint = <<>>
    /\ evaluations = <<>>
    /\ returned = <<>>

VideoIdle ==
    /\ vectors_raw = <<>>
    /\ ts = <<>>
    /\ window_size = 1
    /\ old_version = FALSE
    /\ count_v = 0
    /\ current_time = 0
    /\ window_vs = <<>>
    /\ video_vs = <<>>

----------------------------------------------------------------------------
(* videoInputHelper(input_data, window_size, channel, old_version)         *)

\* lines 264-272: every NaN feature becomes 0
RemoveNan(vec) == [j \in 1..Len(vec) |-> IF vec[j] = NaN THEN 0 ELSE vec[j]]

vectors == [i \in 1..Len(vectors_raw) |-> RemoveNan(vectors_raw[i])]

\* The comparison of line 281 made strict.
InWindowOff(t) == t < current_time + window_size

\* line 281 / line 294: the vector's time lies in the current window
InWindow(t) == t <= current_time + window_size

NonDecreasing(s) == \A i \in 1..(Len(s) - 1) : s[i] <= s[i + 1]

\* The state on entry to the loop (lines 261-278 and 289-291).  The timers of
\* a channel are read in recording order, so they do not decrease.
VideoInit ==
    /\ pc = "video_loop"
    /\ \E n \in 0..MaxVectors :
         /\ \E f \in [1..n -> {NaN, 5}] :
              vectors_raw = [i \in 1..n |-> <<i, f[i]>>]
         /\ ts \in {s \in [1..n -> 0..MaxTime] : NonDecreasing(s)}
    /\ window_size \in 1..MaxWindowSize
    /\ old_version \in BOOLEAN
    /\ count_v = 0
    /\ current_time = 0
    /\ window_vs = <<>>
    /\ video_vs = <<>>
    /\ PadIdle
    /\ BatchIdle
    /\ MainIdle

\* lines 279-283
VideoAppend ==
    /\ pc = "video_loop"
    /\ ~old_version
    /\ count_v < Len(vectors)
    /\ InWindow(ts[count_v + 1])
    /\ window_vs' = Append(window_vs, vectors[count_v + 1])
    /\ count_v' = count_v + 1
    /\ UNCHANGED <<pc, vectors_raw, ts, window_size, old_version,
                   current_time, video_vs>>
    /\ UNCHANGED <<padVars, batchVars, mainVars>>

\* lines 279-281, 284-287
VideoAdvance ==
    /\ pc = "video_loop"
    /\ ~old_version
    /\ count_v < Len(vectors)
    /\ ~InWindow(ts[count_v + 1])
    /\ video_vs' = Append(video_vs, window_vs)
    /\ window_vs' = <<>>
    /\ current_time' = current_time + window_size
    /\ UNCHANGED <<pc, vectors_raw, ts, window_size, old_version, count_v>>
    /\ UNCHANGED <<padVars, batchVars, mainVars>>

\* lines 292-295, 300
VideoOldAppend ==
    /\ pc = "video_loop"
    /\ old_version
    /\ count_v < Len(vectors)
    /\ InWindow(ts[count_v + 1])
    /\ window_vs' = Append(window_vs, vectors[count_v + 1])
    /\ count_v' = count_v + 1
    /\ UNCHANGED <<pc, vectors_raw, ts, window_size, old_version,
                   current_time, video_vs>>
    /\ UNCHANGED <<padVars, batchVars, mainVars>>

\* lines 292-294, 296-300
VideoOldAdvance ==
    /\ pc = "video_loop"
    /\ old_version
    /\ count_v < Len(vectors)
    /\ ~InWindow(ts[count_v + 1])
    /\ video_vs' = Append(video_vs, window_vs)
    /\ window_vs' = <<vectors[count_v + 1]>>
    /\ current_time' = current_time + window_size
    /\ count_v' = count_v + 1
    /\ UNCHANGED <<pc, vectors_raw, ts, window_size, old_version>>
    /\ UNCHANGED <<padVars, batchVars, mainVars>>

\* line 302: the loop is over, video_vs is returned
VideoReturn ==
    /\ pc = "video_loop"
    /\ count_v >= Len(vectors)
    /\ pc' = "video_done"
    /\ UNCHANGED <<videoVars, padVars, batchVars, mainVars>>

VideoNext ==
    \/ VideoAppend
    \/ VideoAdvance
    \/ VideoOldAppend
    \/ VideoOldAdvance
    \/ VideoReturn

VideoSpec == VideoInit /\ [][VideoNext]_vars

RECURSIVE VectorsBetween(_, _, _)
\* The vectors of position i and later whose timestamp t has lo < t <= hi,
\* in input order.
VectorsBetween(lo, hi, i) ==
    IF i > Len(vectors) THEN <<>>
    ELSE (IF lo < ts[i] /\ ts[i] <= hi THEN <<vectors[i]>> ELSE <<>>)
         \o VectorsBetween(lo, hi, i + 1)

\* The lower end of time window k: window 0 holds every t <= window_size.
WindowLow(k) == IF k = 0 THEN -1 ELSE k * window_size

\* Returned window k (0-based) holds exactly the vectors of time window k.
WindowsByTime ==
    \A k \in 0..(Len(video_vs) - 1) :
        video_vs[k + 1] = VectorsBetween(WindowLow(k), (k + 1) * window_size, 1)

\* The window being filled at the end is not returned: the returned windows
\* and window_vs together are the input, and the last vector is dropped.
LastWindowDropped ==
    /\ Concat(video_vs) \o window_vs = vectors
    /\ Len(vectors) > 0 => Len(Concat(video_vs)) < Len(vectors)

\* C8 as stated: the returned windows are, for K = len(video_vs), the time
\* windows 0..K-1, the window being filled is dropped, and the returned
\* vectors are the vectors with t <= K * window_size.
C8_Original ==
    (pc = "video_done" /\ ~old_version) =>
        /\ WindowsByTime
        /\ LastWindowDropped
        /\ Concat(video_vs) = VectorsBetween(-1, Len(video_vs) * window_size, 1)

\* C8 (amended): as C8_Original, but the returned vectors are the vectors
\* with t <= K * window_size only when K >= 1; when K = 0 nothing is
\* returned, whatever the timestamps.
C8_Windows ==
    (pc = "video_done" /\ ~old_version) =>
        /\ WindowsByTime
        /\ LastWindowDropped
        /\ Len(video_vs) >= 1 =>
               Concat(video_vs) = VectorsBetween(-1, Len(video_vs) * window_size, 1)
        /\ Len(video_vs) = 0 => Concat(video_vs) = <<>>

\* A run that returned a non-empty window and an empty window, and dropped
\* the window it was filling.
C8_Witness ==
    /\ pc = "video_done"
    /\ ~old_version
    /\ Len(video_vs) >= 2
    /\ \E k \in 1..Len(video_vs) : video_vs[k] = <<>>
    /\ \E k \in 1..Len(video_vs) : Len(video_vs[k]) >= 2
    /\ window_vs # <<>>

----------------------------------------------------------------------------
(* padInputHelper(input_data, dim, old_version)                            *)

\* [x] * n
Repeat(x, n) == [i \in 1..n |-> x]

\* l[:n] = r  (the first n items of l, clipped to len(l), are replaced by r)
AssignPrefix(l, n, r) == r \o Slice(l, n, Len(l))

\* line 354
padVec(dim) == Repeat(0, dim)

\* [len(w) for w in data]
WindowLens(data) == [j \in 1..Len(data) |-> Len(data[j])]

RECURSIVE MaxNumVecInWindow(_)
\* lines 344, 351-352 over the videos of the loop of line 347
MaxNumVecInWindow(videos) ==
    IF videos = <<>> THEN 0
    ELSE LET rest == MaxNumVecInWindow(SubSeq(videos, 1, Len(videos) - 1))
             data == videos[Len(videos)]
         IN  IF rest < MaxOf(WindowLens(data)) THEN MaxOf(WindowLens(data)) ELSE rest

RECURSIVE MaxNumWindows(_)
\* lines 345, 348-349
MaxNumWindows(videos) ==
    IF videos = <<>> THEN 0
    ELSE LET rest == MaxNumWindows(SubSeq(videos, 1, Len(videos) - 1))
             data == videos[Len(videos)]
         IN  IF rest < Len(data) THEN Len(data) ELSE rest

\* The window padded with its last vector, as the comments of lines 362 and
\* 365 describe it.
WindNewLast(wind, V, dim, old) ==
    IF Len(wind) # 0
    THEN AssignPrefix(Repeat(wind[Len(wind)], V), Len(wind), wind)
    ELSE Repeat(padVec(dim), V)

\* lines 358-372: the new window of one window of a video
WindNew(wind, V, dim, old) ==
    IF ~old
    THEN IF Len(wind) # 0
         THEN AssignPrefix(Repeat(padVec(dim), V), Len(wind), wind)
         ELSE Repeat(padVec(dim), V)
    ELSE AssignPrefix(Repeat(padVec(dim), V), Len(wind), wind)

\* lines 356-374: the padded video
VidNew(vid, V, M, dim, old) ==
    LET vidNewTmp == [j \in 1..Len(vid) |-> WindNew(vid[j], V, dim, old)]
    IN  AssignPrefix(Repeat(Repeat(padVec(dim), V), M), Len(vidNewTmp), vidNewTmp)

\* line 351: max() of an empty list raises ValueError
PadRaises(videos) == \E i \in 1..Len(videos) : videos[i] = <<>>

\* lines 343-376: the pair (output, seq_lens)
padInputHelper(videos, dim, old) ==
    LET V == MaxNumVecInWindow(videos)
        M == MaxNumWindows(videos)
    IN  << [i \in 1..Len(videos) |-> VidNew(videos[i], V, M, dim, old)],
           [i \in 1..Len(videos) |-> Len(videos[i])] >>

\* A vector of dim features, all of them the number v.
Vector(v) == Repeat(v, Dim)

\* The shape of an input: video i has counts[i] windows, and sizes lists the
\* number of vectors of every window, video after video.
ShapeOf(counts, sizes) ==
    [i \in 1..Len(counts) |->
        SubSeq(sizes, Sum(SubSeq(counts, 1, i - 1)) + 1, Sum(SubSeq(counts, 1, i)))]

\* The videos of a shape; vector k of window j of video i is made of the
\* number 100*i + 10*j + k, so that every vector of the input is told apart.
VideosOf(shape) ==
    [i \in 1..Len(shape) |->
        [j \in 1..Len(shape[i]) |->
            [k \in 1..shape[i][j] |-> Vector(100 * i + 10 * j + k)]]]

PadInit ==
    /\ pc = "pad_start"
    /\ \E n \in 0..MaxVideos : \E counts \in [1..n -> 0..MaxWindows] :
         /\ Sum(counts) <= MaxWindows
         /\ \E sizes \in [1..Sum(counts) -> 0..MaxInWindow] :
              pad_input_data = VideosOf(ShapeOf(counts, sizes))
    /\ pad_old_version \in BOOLEAN
    /\ pad_output = <<>>
    /\ pad_seq_lens = <<>>
    /\ VideoIdle
    /\ BatchIdle
    /\ MainIdle

\* lines 343-376, every video has a window
PadReturn ==
    /\ pc = "pad_start"
    /\ ~PadRaises(pad_input_data)
    /\ pad_output' = padInputHelper(pad_input_data, Dim, pad_old_version)[1]
    /\ pad_seq_lens' = padInputHelper(pad_input_data, Dim, pad_old_version)[2]
    /\ pc' = "pad_done"
    /\ UNCHANGED <<pad_input_data, pad_old_version>>
    /\ UNCHANGED <<videoVars, batchVars, mainVars>>

\* line 351 on a video without windows
PadRaise ==
    /\ pc = "pad_start"
    /\ PadRaises(pad_input_data)
    /\ pc' = "pad_raise"
    /\ UNCHANGED <<padVars, videoVars, batchVars, mainVars>>

PadNext ==
    \/ PadReturn
    \/ PadRaise

PadSpec == PadInit /\ [][PadNext]_vars

\* M and V of the input: the largest window count of a video and the largest
\* vector count of a window.
WindowCounts == {Len(pad_input_data[i]) : i \in 1..Len(pad_input_data)}

VectorCounts ==
    UNION {{Len(pad_input_data[i][j]) : j \in 1..Len(pad_input_data[i])} :
           i \in 1..Len(pad_input_data)}

ZeroVector == [f \in 1..Dim |-> 0]

C5_PadWithLastFrame ==
    (pc = "pad_done" /\ ~pad_old_version) =>
        \A i \in 1..Len(pad_input_data) : \A j \in 1..Len(pad_input_data[i]) :
            LET wind == pad_input_data[i][j]
            IN  Len(wind) # 0 =>
                    \A k \in (Len(wind) + 1)..Len(pad_output[i][j]) :
                        pad_output[i][j][k] = wind[Len(wind)]

----------------------------------------------------------------------------
(* main(args), lines 437-463.  model counts the calls of train() that have  *)
(* updated the network; checkpoint is <<>> while no file has been written  *)
(* and <<m>> when the file holds the state of model m.  evaluations logs,  *)
(* for every call of evaluate(), the epoch, the mean CCC it returned, the   *)
(* best_ccc before it and whether save_checkpoint was called.              *)

CccValues == (-CccScale)..CccScale

\* line 449 with >= for >
BetterOrEqual(ccc, best) == ccc >= best

\* line 449 / line 453
Better(ccc, best) == ccc > best

\* lines 438-439
MainInit ==
    /\ pc = "main_loop"
    /\ epochs \in 0..MaxEpochs
    /\ eval_freq \in 1..MaxEvalFreq
    /\ epoch = 0
    /\ model = 0
    /\ best_ccc = -CccScale
    /\ single_best_ccc = -CccScale
    /\ checkpoint = <<>>
    /\ evaluations = <<>>
    /\ returned = <<>>
    /\ VideoIdle
    /\ PadIdle
    /\ BatchIdle

\* lines 440-444: an epoch that is not evaluated
MainTrain ==
    /\ pc = "main_loop"
    /\ epoch < epochs
    /\ (epoch + 1) % eval_freq # 0
    /\ epoch' = epoch + 1
    /\ model' = model + 1
    /\ UNCHANGED <<pc, epochs, eval_freq, best_ccc, single_best_ccc,
                   checkpoint, evaluations, returned>>
    /\ UNCHANGED <<videoVars, padVars, batchVars>>

\* lines 440-461: an epoch that is evaluated; evaluate() returns the mean CCC
\* ccc and the largest CCC of a sequence max_ccc, which is at least the mean
MainEvaluate ==
    /\ pc = "main_loop"
    /\ epoch < epochs
    /\ (epoch + 1) % eval_freq = 0
    /\ epoch' = epoch + 1
    /\ model' = model + 1
    /\ \E ccc \in CccValues : \E max_ccc \in ccc..CccScale :
         /\ best_ccc' = IF Better(ccc, best_ccc) THEN ccc ELSE best_ccc
         /\ checkpoint' = IF Better(ccc, best_ccc) THEN <<model'>> ELSE checkpoint
         /\ single_best_ccc' = IF Better(max_ccc, single_best_ccc)
                               THEN max_ccc ELSE single_best_ccc
         /\ evaluations' = Append(evaluations,
                                  [epoch |-> epoch', ccc |-> ccc,
                                   best_before |-> best_ccc,
                                   saved |-> checkpoint' # checkpoint])
    /\ UNCHANGED <<pc, epochs, eval_freq, returned>>
    /\ UNCHANGED <<videoVars, padVars, batchVars>>

\* line 463
MainReturn ==
    /\ pc = "main_loop"
    /\ epoch >= epochs
    /\ returned' = <<best_ccc>>
    /\ pc' = "main_done"
    /\ UNCHANGED <<epochs, eval_freq, epoch, model, best_ccc, single_best_ccc,
                   checkpoint, evaluations>>
    /\ UNCHANGED <<videoVars, padVars, batchVars>>

MainNext ==
    \/ MainTrain
    \/ MainEvaluate
    \/ MainReturn

MainSpec == MainInit /\ [][MainNext]_vars

\* The epochs run so far at which evaluate() is due.
DueEpochs == {e \in 1..epoch : e % eval_freq = 0}

\* The earliest evaluated epoch whose mean CCC is the current best_ccc.
EarliestBest ==
    LET at == {i \in 1..Len(evaluations) : evaluations[i].ccc = best_ccc}
    IN  evaluations[CHOOSE i \in at : \A j \in at : i <= j].epoch

\* The part of C3 about evaluation, best_ccc, save_checkpoint and the result.
BestCccTracked ==
    /\ {evaluations[i].epoch : i \in 1..Len(evaluations)} = DueEpochs
    /\ Len(evaluations) = Cardinality(DueEpochs)
    /\ best_ccc = Largest({-CccScale} \cup
                          {evaluations[i].ccc : i \in 1..Len(evaluations)})
    /\ \A i \in 1..Len(evaluations) :
         /\ evaluations[i].best_before <=
                (IF i < Len(evaluations) THEN evaluations[i + 1].best_before
                                         ELSE best_ccc)
         /\ evaluations[i].saved <=>
                evaluations[i].ccc > evaluations[i].best_before
    /\ pc = "main_done" => returned = <<best_ccc>>

\* C3 as stated: evaluation runs at the epochs e with e % eval_freq = 0,
\* best_ccc is the maximum of -1 and the mean CCCs so far and never
\* decreases, save_checkpoint is called exactly on a strictly greater mean
\* CCC, main returns best_ccc, and the checkpoint always holds the model of
\* the earliest epoch that attained the current best_ccc.
C3_Original ==
    /\ BestCccTracked
    /\ (\E i \in 1..Len(evaluations) : evaluations[i].ccc = best_ccc) =>
           checkpoint = <<EarliestBest>>

\* C3 (amended): as C3_Original, but the checkpoint holds the model of the
\* earliest epoch that attained best_ccc only once best_ccc is above its
\* initial value -1; while best_ccc is -1 no checkpoint has been written.
C3_BestModel ==
    /\ BestCccTracked
    /\ best_ccc > -CccScale => checkpoint = <<EarliestBest>>
    /\ best_ccc = -CccScale => checkpoint = <<>>

\* main has returned after three evaluations: the first saved a checkpoint,
\* the second tied with it and saved nothing, the third saved a better one.
C3_Witness ==
    /\ pc = "main_done"
    /\ Len(evaluations) >= 3
    /\ evaluations[1].saved
    /\ evaluations[2].ccc = evaluations[1].ccc
    /\ ~evaluations[2].saved
    /\ evaluations[3].saved
    /\ checkpoint = <<3>>

----------------------------------------------------------------------------
(* padRating, chunks and generateTrainBatch                                *)

\* lines 393-400, for one rating list
padRating(rating, max_len) == AssignPrefix(Repeat(0, max_len), Len(rating), rating)

RECURSIVE Range(_, _, _)
\* range(i, stop, step) for step >= 1
Range(i, stop, step) ==
    IF i >= stop THEN <<>> ELSE <<i>> \o Range(i + step, stop, step)

\* chunks whose slices are one item too long
chunksOverlap(l, n) ==
    LET starts == Range(0, Len(l), n)
    IN  [c \in 1..Len(starts) |-> Slice(l, starts[c], starts[c] + n + 1)]

\* lines 51-54
chunks(l, n) ==
    LET starts == Range(0, Len(l), n)
    IN  [c \in 1..Len(starts) |-> Slice(l, starts[c], starts[c] + n)]

\* list(zip(a, b))
Zip(a, b) == [k \in 1..Min(Len(a), Len(b)) |-> <<a[k], b[k]>>]

\* One step of the sort: pair x goes behind every pair whose length is not
\* smaller, so pairs of equal length keep the order they came in.
InsertDesc(x, sorted) ==
    LET p == Cardinality({k \in 1..Len(sorted) : sorted[k][2] >= x[2]})
    IN  SubSeq(sorted, 1, p) \o <<x>> \o SubSeq(sorted, p + 1, Len(sorted))

RECURSIVE SortDesc(_)
\* pairs.sort(key=itemgetter(1), reverse=True): a stable sort
SortDesc(pairs) ==
    IF pairs = <<>> THEN <<>>
    ELSE InsertDesc(pairs[Len(pairs)], SortDesc(SubSeq(pairs, 1, Len(pairs) - 1)))

\* The pair goes in front of the pairs of its own length.
InsertDescFront(x, sorted) ==
    LET p == Cardinality({k \in 1..Len(sorted) : sorted[k][2] > x[2]})
    IN  SubSeq(sorted, 1, p) \o <<x>> \o SubSeq(sorted, p + 1, Len(sorted))

RECURSIVE SortDescUnstable(_)
\* A sort that turns the order of the pairs of equal length around.
SortDescUnstable(pairs) ==
    IF pairs = <<>> THEN <<>>
    ELSE InsertDescFront(pairs[Len(pairs)],
                         SortDescUnstable(SubSeq(pairs, 1, Len(pairs) - 1)))

\* lines 63-65
data_chunk(chunk) == [k \in 1..Len(chunk) |-> input_data[chunk[k] + 1]]

target_chunk(chunk) == [k \in 1..Len(chunk) |-> input_target[chunk[k] + 1]]

length_chunk(chunk) == [k \in 1..Len(chunk) |-> input_length[chunk[k] + 1]]

\* line 70 without the sort of line 71
combined_data_unsorted(chunk) == Zip(data_chunk(chunk), length_chunk(chunk))

\* lines 70-71
combined_data(chunk) == SortDesc(Zip(data_chunk(chunk), length_chunk(chunk)))

\* lines 72-73 with a sort that is not stable
combined_rating_unstable(chunk) ==
    SortDescUnstable(Zip(target_chunk(chunk), length_chunk(chunk)))

\* lines 72-73
combined_rating(chunk) == SortDesc(Zip(target_chunk(chunk), length_chunk(chunk)))

\* line 93 with the slice one short
lstm_mask_row_short(T, length) ==
    [t \in 1..T |-> IF t < Min(length, T) THEN <<1>> ELSE <<0>>]

\* lines 91-93: a row of T entries of shape (1,), the first length of them 1
lstm_mask_row(T, length) ==
    [t \in 1..T |-> IF t <= Min(length, T) THEN <<1>> ELSE <<0>>]

\* lines 63-98: the tuple yielded for one chunk
Batch(chunk) ==
    LET max_length == MaxOf(length_chunk(chunk))
        cd == combined_data(chunk)
        cr == combined_rating(chunk)
        length_sort == [k \in 1..Len(cd) |-> cd[k][2]]
        data_sort == [k \in 1..Len(cd) |-> Slice(cd[k][1], 0, max_length)]
        target_sort == [k \in 1..Len(cr) |-> Slice(cr[k][1], 0, max_length)]
    IN  [data |-> data_sort,
         target |-> [k \in 1..Len(target_sort) |->
                        [t \in 1..Len(target_sort[k]) |-> <<target_sort[k][t]>>]],
         mask |-> [k \in 1..Len(data_sort) |->
                      lstm_mask_row(Len(data_sort[1]), length_sort[k])],
         lengths |-> length_sort]

\* The orders shuffle(index) can leave the list 0..n-1 in.
Shuffles(n) == {p \in [1..n -> 0..(n - 1)] : \A i, j \in 1..n : p[i] = p[j] => i = j}

\* The raw features and ratings of the samples: sample s has lens[s] windows
\* of one vector; window t of sample s is made of the number 100*s + t, which
\* is also its rating, so that every window and rating is told apart.
RawFeatures(lens) ==
    [s \in 1..Len(lens) |-> [t \in 1..lens[s] |-> <<Vector(100 * s + t)>>]]

RawRatings(lens) ==
    [s \in 1..Len(lens) |-> [t \in 1..lens[s] |-> 100 * s + t]]

\* The arguments of generateTrainBatch as main builds them (lines 418-428):
\* padded features, padded ratings and the window counts.
BatchInit ==
    /\ pc = "batch_start"
    /\ \E n \in 0..MaxSamples : \E lens \in [1..n -> 1..MaxLength] :
         LET padded == padInputHelper(RawFeatures(lens), Dim, FALSE)
         IN  /\ input_data = padded[1]
             /\ input_length = padded[2]
             /\ input_target =
                    [s \in 1..n |-> padRating(RawRatings(lens)[s], MaxOf(padded[2]))]
    /\ batch_size \in 1..MaxBatchSize
    /\ index = <<>>
    /\ shuffle_chunks = <<>>
    /\ chunk_no = 0
    /\ batches = <<>>
    /\ data_num = 0
    /\ VideoIdle
    /\ PadIdle
    /\ MainIdle

\* lines 58-61
BatchShuffle ==
    /\ pc = "batch_start"
    /\ \E shuffled \in Shuffles(Len(input_data)) :
         /\ index' = shuffled
         /\ shuffle_chunks' = chunks(shuffled, batch_size)
    /\ pc' = "batch_loop"
    /\ UNCHANGED <<input_data, input_target, input_length, batch_size,
                   chunk_no, batches, data_num>>
    /\ UNCHANGED <<videoVars, padVars, mainVars>>

\* lines 62-98: the next batch is yielded; and line 128 of train (line 164 of
\* evaluate), which counts its time-points
BatchYield ==
    /\ pc = "batch_loop"
    /\ chunk_no < Len(shuffle_chunks)
    /\ batches' = Append(batches, Batch(shuffle_chunks[chunk_no + 1]))
    /\ data_num' = data_num + Sum(Batch(shuffle_chunks[chunk_no + 1]).lengths)
    /\ chunk_no' = chunk_no + 1
    /\ UNCHANGED <<pc, input_data, input_target, input_length, batch_size,
                   index, shuffle_chunks>>
    /\ UNCHANGED <<videoVars, padVars, mainVars>>

\* the generator is exhausted
BatchDone ==
    /\ pc = "batch_loop"
    /\ chunk_no >= Len(shuffle_chunks)
    /\ pc' = "batch_done"
    /\ UNCHANGED <<batchVars, videoVars, padVars, mainVars>>

BatchNext ==
    \/ BatchShuffle
    \/ BatchYield
    \/ BatchDone

BatchSpec == BatchInit /\ [][BatchNext]_vars

\* The number of samples, and the chunk a yielded batch was made of.
NumSamples == Len(input_data)

ChunkOf(b) == shuffle_chunks[b]

\* C1: every yielded batch is length-sorted: its lengths do not increase.
C1_LengthSorted ==
    \A b \in 1..Len(batches) :
        \A k \in 1..(Len(batches[b].lengths) - 1) :
            batches[b].lengths[k] >= batches[b].lengths[k + 1]

\* A batch of three samples was yielded whose lengths came in increasing order.
C1_Witness ==
    \E b \in 1..Len(batches) :
        /\ Len(ChunkOf(b)) = 3
        /\ length_chunk(ChunkOf(b))[1] < length_chunk(ChunkOf(b))[2]
        /\ length_chunk(ChunkOf(b))[2] < length_chunk(ChunkOf(b))[3]

\* C4: one pass partitions the samples: every sample index 0..N-1 is in
\* exactly one place of exactly one chunk, one batch is yielded per chunk with
\* one row per sample of the chunk, every batch but the last has batch_size
\* rows, the last has 1..batch_size rows, and there are ceil(N / batch_size)
\* batches.
C4_Partition ==
    pc = "batch_done" =>
        /\ \A i \in 0..(NumSamples - 1) :
             Cardinality({<<b, k>> \in (1..Len(shuffle_chunks)) \X (1..NumSamples) :
                            k <= Len(ChunkOf(b)) /\ ChunkOf(b)[k] = i}) = 1
        /\ \A b \in 1..Len(shuffle_chunks) : \A k \in 1..Len(ChunkOf(b)) :
             ChunkOf(b)[k] \in 0..(NumSamples - 1)
        /\ Len(batches) = Len(shuffle_chunks)
        /\ Len(batches) = (NumSamples + batch_size - 1) \div batch_size
        /\ \A b \in 1..Len(batches) :
             /\ Len(batches[b].data) = Len(ChunkOf(b))
             /\ Len(batches[b].target) = Len(ChunkOf(b))
             /\ Len(batches[b].lengths) = Len(ChunkOf(b))
             /\ b < Len(batches) => Len(ChunkOf(b)) = batch_size
             /\ b = Len(batches) => Len(ChunkOf(b)) \in 1..batch_size

\* A pass over three samples in batches of two has ended: the last batch is
\* short.
C4_Witness ==
    /\ pc = "batch_done"
    /\ NumSamples = 3
    /\ batch_size = 2
    /\ Len(batches) = 2
    /\ Len(batches[2].lengths) = 1

\* Row k of a batch, as sample i gives it: its data and rating cut to T
\* windows, the rating in a (1,) cell, and its length.
RowIsSample(b, k, i) ==
    LET T == MaxOf(batches[b].lengths)
    IN  /\ batches[b].data[k] = Slice(input_data[i + 1], 0, T)
        /\ batches[b].target[k] =
               [t \in 1..T |-> <<Slice(input_target[i + 1], 0, T)[t]>>]
        /\ batches[b].lengths[k] = input_length[i + 1]

\* C6: in every yielded batch, row k of the data, row k of the target and
\* lengths[k] come from one and the same sample of the chunk.
C6_RowsAligned ==
    \A b \in 1..Len(batches) : \A k \in 1..Len(batches[b].lengths) :
        \E p \in 1..Len(ChunkOf(b)) : RowIsSample(b, k, ChunkOf(b)[p])

\* A batch was yielded in which two samples have the same length and a longer
\* sample came after them.
C6_Witness ==
    \E b \in 1..Len(batches) :
        /\ Len(ChunkOf(b)) = 3
        /\ length_chunk(ChunkOf(b))[1] = length_chunk(ChunkOf(b))[2]
        /\ length_chunk(ChunkOf(b))[2] < length_chunk(ChunkOf(b))[3]

\* The number of 1 entries of a mask.
Ones(mask) ==
    Sum([k \in 1..Len(mask) |-> Sum([t \in 1..Len(mask[k]) |-> mask[k][t][1]])])

\* C7: in every yielded batch data, target and mask have the time dimension
\* T, the largest length of the batch; mask[k][t] (t from 0) is 1 exactly
\* when t < lengths[k]; and the number of 1 entries is sum(lengths), which is
\* what data_num counts.
C7_MaskAndCut ==
    /\ \A b \in 1..Len(batches) :
         LET T == MaxOf(batches[b].lengths)
         IN  /\ \A k \in 1..Len(batches[b].lengths) :
                  /\ Len(batches[b].data[k]) = T
                  /\ Len(batches[b].target[k]) = T
                  /\ Len(batches[b].mask[k]) = T
                  /\ \A t \in 0..(T - 1) :
                       batches[b].mask[k][t + 1] =
                           <<IF t < batches[b].lengths[k] THEN 1 ELSE 0>>
             /\ Len(batches[b].mask) = Len(batches[b].lengths)
             /\ Ones(batches[b].mask) = Sum(batches[b].lengths)
    /\ data_num = Sum([b \in 1..Len(batches) |-> Ones(batches[b].mask)])

\* A batch was yielded that is shorter than the padded input and holds a row
\* shorter than the batch.
C7_Witness ==
    \E b \in 1..Len(batches) :
        /\ MaxOf(batches[b].lengths) < Len(input_data[1])
        /\ \E k \in 1..Len(batches[b].lengths) :
             batches[b].lengths[k] < MaxOf(batches[b].lengths)
        /\ data_num > 0

====
